---- MODULE Spec2Model ----
(***************************************************************************)
(* State-machine model of two units of the repository:                     *)
(*   - MeshMtlsChecker.Check  (business/checkers/peerauthentications)      *)
(*   - DashboardsService.GetDashboard / GetIstioDashboard (business)       *)
(* The three operations share no state; each has its own specification.   *)
(***************************************************************************)
EXTENDS Naturals, Sequences, FiniteSets, TLC

VARIABLES
    \* ---- MeshMtlsChecker ----
    MeshPolicy,        \* t.MeshPolicy: the mTLS mode of the mesh policy
    DestinationRules,  \* t.MTLSDetails.DestinationRules
    ckPc,              \* position of Check: "idle" | "loop" | "done"
    ckIdx,             \* index of the range loop over DestinationRules
    validations,       \* local slice of Check, kept as the returned findings
    valid,             \* returned validity flag
    examined,          \* number of destination rules the call has examined
    ref,               \* an earlier completed invocation: context and result
    \* ---- DashboardsService.GetDashboard ----
    gdPc,              \* main goroutine: "idle" | "lookup2" | "prepare" | "spawn" | "returned"
    gdNamespace,       \* params.Namespace
    dashboard,         \* the template found by in.mon.GetDashboard, or Nil
    gdLookups,         \* the template lookups made by the call, in order
    gdI,               \* index of the range loop that starts the goroutines
    wg,                \* counter of the sync.WaitGroup
    filledCharts,      \* the slice the goroutines fill
    taskPc,            \* position of the goroutine started for each chart
    taskArg,           \* (idx, chart) arguments each goroutine was started with
    fetchLog,          \* per goroutine, the fetches it issued to the backend
    writers,           \* per slot of filledCharts, the goroutines that wrote it
    gdResult,          \* returned *models.MonitoringDashboard, or Nil
    gdErr,             \* returned error, or Nil
    \* ---- DashboardsService.GetIstioDashboard ----
    istioCharts,       \* the package-level table of hard-coded charts
    giPc,              \* "idle" | "loop" | "returned"
    giIdx,             \* index of the range loop over istioCharts
    giDashboard,       \* local variable dashboard
    giBase,            \* number of charts of the prepared dashboard
    giMetrics,         \* what in.prom.GetMetrics returned
    giResult,          \* returned dashboard, or Nil
    giErr              \* returned error, or Nil

ckVars == <<MeshPolicy, DestinationRules, ckPc, ckIdx, validations, valid,
            examined, ref>>

gdVars == <<gdPc, gdNamespace, dashboard, gdLookups, gdI, wg, filledCharts,
            taskPc, taskArg, fetchLog, writers, gdResult, gdErr>>

giVars == <<istioCharts, giPc, giIdx, giDashboard, giBase, giMetrics,
            giResult, giErr>>

vars == <<ckVars, gdVars, giVars>>

\* the nil pointer, nil error and absent series
Nil == [nil |-> TRUE]

\* ------------------------------------------------------------------------
\* Bounds
\* ------------------------------------------------------------------------
MaxRules == 2

\* ------------------------------------------------------------------------
\* MeshMtlsChecker: data
\* ------------------------------------------------------------------------
MTLSModes == {"STRICT", "PERMISSIVE"}

MeshWideHost == "*.local"

Hosts == {MeshWideHost, "reviews"}

TLSModes == {"ISTIO_MUTUAL", "DISABLE"}

DestinationRule == [host : Hosts, tls : TLSModes]

SeqsUpTo(S, n) == UNION {[1..k -> S] : k \in 0..n}

\* kubernetes.PeerAuthnHasStrictMTLS
PeerAuthnHasStrictMTLS(policy) == policy = "STRICT"

\* kubernetes.DestinationRuleHasMeshWideMTLSEnabled (first result)
DestinationRuleHasMeshWideMTLSEnabled(dr) ==
    dr.host = MeshWideHost /\ dr.tls = "ISTIO_MUTUAL"

\* severity of a check id in the descriptor table used by models.Build
Severity(checkId) ==
    IF checkId = "peerauthentication.mtls.destinationrulemissing"
    THEN "error" ELSE "warning"

\* models.Build
Build(checkId, path) ==
    [code |-> checkId, severity |-> Severity(checkId), path |-> path]

NoRef == [set |-> FALSE]

CheckerInit ==
    /\ MeshPolicy \in MTLSModes
    /\ DestinationRules \in SeqsUpTo(DestinationRule, MaxRules)
    /\ ckPc = "idle"
    /\ ckIdx = 0
    /\ validations = <<>>
    /\ valid = TRUE
    /\ examined = 0
    /\ ref = NoRef

\* ------------------------------------------------------------------------
\* MeshMtlsChecker: operations
\* ------------------------------------------------------------------------

\* A caller builds another checker value (struct literal) between calls.
NewMeshMtlsChecker ==
    /\ UNCHANGED <<gdVars, giVars>>
    /\ ckPc = "idle"
    /\ \E p \in MTLSModes, drs \in SeqsUpTo(DestinationRule, MaxRules) :
          /\ MeshPolicy' = p
          /\ DestinationRules' = drs
    /\ UNCHANGED <<ckPc, ckIdx, validations, valid, examined, ref>>

\* Faulty variant: the strict-mode guard is dropped, the rules are always searched.
CheckEnterNoShortCircuit ==
    /\ UNCHANGED <<gdVars, giVars>>
    /\ ckPc = "idle"
    /\ validations' = <<>>
    /\ examined' = 0
    /\ ckPc' = "loop" /\ ckIdx' = 1 /\ valid' = TRUE
    /\ UNCHANGED <<MeshPolicy, DestinationRules, ref>>

\* Faulty variant: the findings slice is not made afresh by the call.
CheckEnterStaleSlice ==
    /\ UNCHANGED <<gdVars, giVars>>
    /\ ckPc = "idle"
    /\ validations' = validations
    /\ examined' = 0
    /\ \/ /\ ~PeerAuthnHasStrictMTLS(MeshPolicy)
          /\ ckPc' = "done" /\ valid' = TRUE /\ ckIdx' = 0
       \/ /\ PeerAuthnHasStrictMTLS(MeshPolicy)
          /\ ckPc' = "loop" /\ ckIdx' = 1 /\ valid' = TRUE
    /\ UNCHANGED <<MeshPolicy, DestinationRules, ref>>

\* Check, lines 16-21: make the slice; not strict => return (validations, true).
CheckEnter ==
    /\ UNCHANGED <<gdVars, giVars>>
    /\ ckPc = "idle"
    /\ validations' = <<>>
    /\ examined' = 0
    /\ \/ /\ ~PeerAuthnHasStrictMTLS(MeshPolicy)
          /\ ckPc' = "done" /\ valid' = TRUE /\ ckIdx' = 0
       \/ /\ PeerAuthnHasStrictMTLS(MeshPolicy)
          /\ ckPc' = "loop" /\ ckIdx' = 1 /\ valid' = TRUE
    /\ UNCHANGED <<MeshPolicy, DestinationRules, ref>>

\* Faulty variant: an enabling rule does not end the search.
CheckLoopNoReturn ==
    /\ UNCHANGED <<gdVars, giVars>>
    /\ ckPc = "loop"
    /\ ckIdx <= Len(DestinationRules)
    /\ examined' = examined + 1
    /\ ckIdx' = ckIdx + 1
    /\ UNCHANGED <<ckPc, valid, MeshPolicy, DestinationRules, validations, ref>>

\* Faulty variant: only the first destination rule is examined.
CheckLoopFirstOnly ==
    /\ UNCHANGED <<gdVars, giVars>>
    /\ ckPc = "loop"
    /\ ckIdx <= Len(DestinationRules)
    /\ examined' = examined + 1
    /\ \/ /\ DestinationRuleHasMeshWideMTLSEnabled(DestinationRules[ckIdx])
          /\ ckPc' = "done" /\ valid' = TRUE
          /\ UNCHANGED ckIdx
       \/ /\ ~DestinationRuleHasMeshWideMTLSEnabled(DestinationRules[ckIdx])
          /\ ckIdx' = Len(DestinationRules) + 1
          /\ UNCHANGED <<ckPc, valid>>
    /\ UNCHANGED <<MeshPolicy, DestinationRules, validations, ref>>

\* Check, lines 24-28: one iteration of the range loop.
CheckLoop ==
    /\ UNCHANGED <<gdVars, giVars>>
    /\ ckPc = "loop"
    /\ ckIdx <= Len(DestinationRules)
    /\ examined' = examined + 1
    /\ \/ /\ DestinationRuleHasMeshWideMTLSEnabled(DestinationRules[ckIdx])
          /\ ckPc' = "done" /\ valid' = TRUE
          /\ UNCHANGED ckIdx
       \/ /\ ~DestinationRuleHasMeshWideMTLSEnabled(DestinationRules[ckIdx])
          /\ ckIdx' = ckIdx + 1
          /\ UNCHANGED <<ckPc, valid>>
    /\ UNCHANGED <<MeshPolicy, DestinationRules, validations, ref>>

\* Faulty variant: the finding is appended but the call still reports valid.
CheckMissingStillValid ==
    /\ UNCHANGED <<gdVars, giVars>>
    /\ ckPc = "loop"
    /\ ckIdx > Len(DestinationRules)
    /\ validations' = Append(validations,
          Build("peerauthentication.mtls.destinationrulemissing", "spec/mtls"))
    /\ valid' = TRUE
    /\ ckPc' = "done"
    /\ UNCHANGED <<MeshPolicy, DestinationRules, ckIdx, examined, ref>>

\* Faulty variant: the finding is built for the wrong path.
CheckMissingWrongPath ==
    /\ UNCHANGED <<gdVars, giVars>>
    /\ ckPc = "loop"
    /\ ckIdx > Len(DestinationRules)
    /\ validations' = Append(validations,
          Build("peerauthentication.mtls.destinationrulemissing", "spec/peers"))
    /\ valid' = FALSE
    /\ ckPc' = "done"
    /\ UNCHANGED <<MeshPolicy, DestinationRules, ckIdx, examined, ref>>

\* Check, lines 30-33: the loop ended without a qualifying rule.
CheckMissing ==
    /\ UNCHANGED <<gdVars, giVars>>
    /\ ckPc = "loop"
    /\ ckIdx > Len(DestinationRules)
    /\ validations' = Append(validations,
          Build("peerauthentication.mtls.destinationrulemissing", "spec/mtls"))
    /\ valid' = FALSE
    /\ ckPc' = "done"
    /\ UNCHANGED <<MeshPolicy, DestinationRules, ckIdx, examined, ref>>

Result == [validations |-> validations, valid |-> valid]

\* The caller takes the result; it may keep it to compare with a later call.
CheckReturn ==
    /\ UNCHANGED <<gdVars, giVars>>
    /\ ckPc = "done"
    /\ ckPc' = "idle"
    /\ \/ ref' = [set |-> TRUE, policy |-> MeshPolicy,
                  rules |-> DestinationRules, result |-> Result]
       \/ UNCHANGED ref
    /\ ckIdx' = 0 /\ examined' = 0
    /\ UNCHANGED <<MeshPolicy, DestinationRules, validations, valid>>


\* ------------------------------------------------------------------------
\* DashboardsService.GetDashboard: data
\* ------------------------------------------------------------------------
MaxCharts == 2

\* cfg.IstioNamespace
IstioNamespace == "istio-system"

Namespaces == {"bookinfo", IstioNamespace}

\* kubernetes.MonitoringDashboardChart values the templates are built from;
\* any MetricType other than "counter" takes the histogram branch.
ChartPool ==
    { [Name |-> "Thread count", Unit |-> "", Spans |-> 4,
       MetricName |-> "jvm_threads", MetricType |-> "counter"],
      [Name |-> "Pool usage", Unit |-> "B", Spans |-> 6,
       MetricName |-> "jvm_pool_used", MetricType |-> "histogram"],
      [Name |-> "Uptime", Unit |-> "s", Spans |-> 12,
       MetricName |-> "uptime", MetricType |-> ""] }

\* kubernetes.MonitoringDashboard (its Spec): a title and the charts
Templates == [Title : {"JVM"}, Charts : SeqsUpTo(ChartPool, MaxCharts)]

\* error of in.mon.GetDashboard for a namespace without the template
ErrNotFound(ns) == [notFoundIn |-> ns]

\* zero value of models.Chart
ZeroChart ==
    [Name |-> "", Unit |-> "", Spans |-> 0, CounterRate |-> Nil, Histogram |-> Nil]

\* models.ConvertChart
ConvertChart(chart) ==
    [Name |-> chart.Name, Unit |-> chart.Unit, Spans |-> chart.Spans,
     CounterRate |-> Nil, Histogram |-> Nil]

\* in.prom.FetchRateRange: the rate series of a metric
FetchRateRange(metricName) == [rate |-> metricName]

\* in.prom.FetchHistogramRange: the histogram series of a metric
FetchHistogramRange(metricName) == [histogram |-> metricName]

Tasks == 1..MaxCharts

NoArg == [idx |-> 0, chart |-> Nil]

DashboardIdle ==
    /\ gdPc = "idle"
    /\ gdNamespace = ""
    /\ dashboard = Nil
    /\ gdLookups = <<>>
    /\ gdI = 0
    /\ wg = 0
    /\ filledCharts = <<>>
    /\ taskPc = [t \in Tasks |-> "none"]
    /\ taskArg = [t \in Tasks |-> NoArg]
    /\ fetchLog = [t \in Tasks |-> <<>>]
    /\ writers = [t \in Tasks |-> {}]
    /\ gdResult = Nil
    /\ gdErr = Nil

\* ------------------------------------------------------------------------
\* DashboardsService.GetDashboard: the calling goroutine
\* ------------------------------------------------------------------------

\* GetDashboard, lines 27-28: lookup in the query's namespace.
GetDashboardCall ==
    /\ UNCHANGED <<ckVars, giVars>>
    /\ gdPc = "idle"
    /\ \E ns \in Namespaces :
          /\ gdNamespace' = ns
          /\ \/ \E d \in Templates :
                   /\ dashboard' = d
                   /\ gdLookups' = <<[ns |-> ns, ok |-> TRUE]>>
                   /\ gdPc' = "prepare"
             \/ /\ dashboard' = Nil
                /\ gdLookups' = <<[ns |-> ns, ok |-> FALSE]>>
                /\ gdPc' = "lookup2"
    /\ UNCHANGED <<gdI, wg, filledCharts, taskPc, taskArg, fetchLog, writers,
                   gdResult, gdErr>>

\* Faulty variant: a failed second lookup is ignored and the call goes on.
GetDashboardFallbackIgnoresError ==
    /\ UNCHANGED <<ckVars, giVars>>
    /\ gdPc = "lookup2"
    /\ \/ \E d \in Templates :
             /\ dashboard' = d
             /\ gdLookups' = Append(gdLookups, [ns |-> IstioNamespace, ok |-> TRUE])
             /\ gdPc' = "prepare"
             /\ UNCHANGED <<gdResult, gdErr>>
       \/ /\ dashboard' = [Title |-> "", Charts |-> <<>>]
          /\ gdLookups' = Append(gdLookups, [ns |-> IstioNamespace, ok |-> FALSE])
          /\ gdPc' = "prepare"
          /\ UNCHANGED <<gdResult, gdErr>>
    /\ UNCHANGED <<gdNamespace, gdI, wg, filledCharts, taskPc, taskArg,
                   fetchLog, writers>>

\* GetDashboard, lines 29-34: lookup in the Istio namespace; error => return.
GetDashboardFallback ==
    /\ UNCHANGED <<ckVars, giVars>>
    /\ gdPc = "lookup2"
    /\ \/ \E d \in Templates :
             /\ dashboard' = d
             /\ gdLookups' = Append(gdLookups, [ns |-> IstioNamespace, ok |-> TRUE])
             /\ gdPc' = "prepare"
             /\ UNCHANGED <<gdResult, gdErr>>
       \/ /\ dashboard' = Nil
          /\ gdLookups' = Append(gdLookups, [ns |-> IstioNamespace, ok |-> FALSE])
          /\ gdResult' = Nil
          /\ gdErr' = ErrNotFound(IstioNamespace)
          /\ gdPc' = "returned"
    /\ UNCHANGED <<gdNamespace, gdI, wg, filledCharts, taskPc, taskArg,
                   fetchLog, writers>>

\* GetDashboard, lines 44-46: wg.Add(len(charts)) and make(len(charts)).
GetDashboardPrepare ==
    /\ UNCHANGED <<ckVars, giVars>>
    /\ gdPc = "prepare"
    /\ wg' = wg + Len(dashboard.Charts)
    /\ filledCharts' = [i \in 1..Len(dashboard.Charts) |-> ZeroChart]
    /\ gdI' = 1
    /\ gdPc' = "spawn"
    /\ UNCHANGED <<gdNamespace, dashboard, gdLookups, taskPc, taskArg, fetchLog,
                   writers, gdResult, gdErr>>

\* Faulty variant: every goroutine is handed the index of the last chart.
GetDashboardSpawnLastIndex ==
    /\ UNCHANGED <<ckVars, giVars>>
    /\ gdPc = "spawn"
    /\ gdI <= Len(dashboard.Charts)
    /\ taskPc' = [taskPc EXCEPT ![gdI] = "started"]
    /\ taskArg' = [taskArg EXCEPT ![gdI] =
          [idx |-> Len(dashboard.Charts), chart |-> dashboard.Charts[gdI]]]
    /\ gdI' = gdI + 1
    /\ UNCHANGED <<gdPc, gdNamespace, dashboard, gdLookups, wg, filledCharts,
                   fetchLog, writers, gdResult, gdErr>>

\* GetDashboard, lines 48-49 and 57: go func(idx, chart){...}(i, c).
GetDashboardSpawn ==
    /\ UNCHANGED <<ckVars, giVars>>
    /\ gdPc = "spawn"
    /\ gdI <= Len(dashboard.Charts)
    /\ taskPc' = [taskPc EXCEPT ![gdI] = "started"]
    /\ taskArg' = [taskArg EXCEPT ![gdI] =
          [idx |-> gdI, chart |-> dashboard.Charts[gdI]]]
    /\ gdI' = gdI + 1
    /\ UNCHANGED <<gdPc, gdNamespace, dashboard, gdLookups, wg, filledCharts,
                   fetchLog, writers, gdResult, gdErr>>

\* Faulty variant: the result is assembled without waiting on the WaitGroup.
GetDashboardWaitNoBarrier ==
    /\ UNCHANGED <<ckVars, giVars>>
    /\ gdPc = "spawn"
    /\ gdI > Len(dashboard.Charts)
    /\ gdResult' = [Title |-> dashboard.Title, Charts |-> filledCharts]
    /\ gdErr' = Nil
    /\ gdPc' = "returned"
    /\ UNCHANGED <<gdNamespace, dashboard, gdLookups, gdI, wg, filledCharts,
                   taskPc, taskArg, fetchLog, writers>>

\* GetDashboard, lines 60-65: wg.Wait() passes at zero; build the result.
GetDashboardWait ==
    /\ UNCHANGED <<ckVars, giVars>>
    /\ gdPc = "spawn"
    /\ gdI > Len(dashboard.Charts)
    /\ wg = 0
    /\ gdResult' = [Title |-> dashboard.Title, Charts |-> filledCharts]
    /\ gdErr' = Nil
    /\ gdPc' = "returned"
    /\ UNCHANGED <<gdNamespace, dashboard, gdLookups, gdI, wg, filledCharts,
                   taskPc, taskArg, fetchLog, writers>>

\* ------------------------------------------------------------------------
\* DashboardsService.GetDashboard: the goroutine of one chart
\* ------------------------------------------------------------------------

\* line 51: filledCharts[idx] = models.ConvertChart(chart)
TaskConvert(t) ==
    /\ UNCHANGED <<ckVars, giVars>>
    /\ taskPc[t] = "started"
    /\ filledCharts' = [filledCharts EXCEPT ![taskArg[t].idx] =
                           ConvertChart(taskArg[t].chart)]
    /\ writers' = [writers EXCEPT ![taskArg[t].idx] = @ \cup {t}]
    /\ taskPc' = [taskPc EXCEPT ![t] = "converted"]
    /\ UNCHANGED <<gdPc, gdNamespace, dashboard, gdLookups, gdI, wg, taskArg,
                   fetchLog, gdResult, gdErr>>

\* lines 52-55: the fetch is issued to the backend, by metric type.
TaskFetch(t) ==
    /\ UNCHANGED <<ckVars, giVars>>
    /\ taskPc[t] = "converted"
    /\ \/ /\ taskArg[t].chart.MetricType = "counter"
          /\ fetchLog' = [fetchLog EXCEPT ![t] = Append(@, "rate")]
       \/ /\ taskArg[t].chart.MetricType # "counter"
          /\ fetchLog' = [fetchLog EXCEPT ![t] = Append(@, "histogram")]
    /\ taskPc' = [taskPc EXCEPT ![t] = "fetching"]
    /\ UNCHANGED <<gdPc, gdNamespace, dashboard, gdLookups, gdI, wg,
                   filledCharts, taskArg, writers, gdResult, gdErr>>

\* lines 53/55: the fetch returns and its value is stored in the slot.
TaskStore(t) ==
    /\ UNCHANGED <<ckVars, giVars>>
    /\ taskPc[t] = "fetching"
    /\ \/ /\ taskArg[t].chart.MetricType = "counter"
          /\ filledCharts' = [filledCharts EXCEPT ![taskArg[t].idx].CounterRate =
                FetchRateRange(taskArg[t].chart.MetricName)]
       \/ /\ taskArg[t].chart.MetricType # "counter"
          /\ filledCharts' = [filledCharts EXCEPT ![taskArg[t].idx].Histogram =
                FetchHistogramRange(taskArg[t].chart.MetricName)]
    /\ writers' = [writers EXCEPT ![taskArg[t].idx] = @ \cup {t}]
    /\ taskPc' = [taskPc EXCEPT ![t] = "stored"]
    /\ UNCHANGED <<gdPc, gdNamespace, dashboard, gdLookups, gdI, wg, taskArg,
                   fetchLog, gdResult, gdErr>>

\* line 50: the deferred wg.Done()
TaskDone(t) ==
    /\ UNCHANGED <<ckVars, giVars>>
    /\ taskPc[t] = "stored"
    /\ wg' = wg - 1
    /\ taskPc' = [taskPc EXCEPT ![t] = "done"]
    /\ UNCHANGED <<gdPc, gdNamespace, dashboard, gdLookups, gdI, filledCharts,
                   taskArg, fetchLog, writers, gdResult, gdErr>>

\* The caller has the result; the service takes the next request.
GetDashboardDone ==
    /\ UNCHANGED <<ckVars, giVars>>
    /\ gdPc = "returned"
    /\ gdPc' = "idle"
    /\ gdNamespace' = ""
    /\ dashboard' = Nil
    /\ gdLookups' = <<>>
    /\ gdI' = 0
    /\ wg' = 0
    /\ filledCharts' = <<>>
    /\ taskPc' = [t \in Tasks |-> "none"]
    /\ taskArg' = [t \in Tasks |-> NoArg]
    /\ fetchLog' = [t \in Tasks |-> <<>>]
    /\ writers' = [t \in Tasks |-> {}]
    /\ gdResult' = Nil
    /\ gdErr' = Nil

\* ------------------------------------------------------------------------
\* DashboardsService.GetIstioDashboard
\* ------------------------------------------------------------------------

\* var istioCharts, as the package initialises it
IstioChartsTable ==
    << [Chart |-> [Name |-> "Request volume", Unit |-> "ops", Spans |-> 12,
                   CounterRate |-> Nil, Histogram |-> Nil],
        refName |-> "request_count"],
       [Chart |-> [Name |-> "Request duration", Unit |-> "s", Spans |-> 12,
                   CounterRate |-> Nil, Histogram |-> Nil],
        refName |-> "request_duration"],
       [Chart |-> [Name |-> "Request size", Unit |-> "B", Spans |-> 12,
                   CounterRate |-> Nil, Histogram |-> Nil],
        refName |-> "request_size"],
       [Chart |-> [Name |-> "Response size", Unit |-> "B", Spans |-> 12,
                   CounterRate |-> Nil, Histogram |-> Nil],
        refName |-> "response_size"],
       [Chart |-> [Name |-> "TCP received", Unit |-> "bps", Spans |-> 12,
                   CounterRate |-> Nil, Histogram |-> Nil],
        refName |-> "tcp_received"],
       [Chart |-> [Name |-> "TCP sent", Unit |-> "bps", Spans |-> 12,
                   CounterRate |-> Nil, Histogram |-> Nil],
        refName |-> "tcp_sent"] >>

RefNames == {IstioChartsTable[i].refName : i \in 1..Len(IstioChartsTable)}

Directions == {"inbound", "outbound"}

\* what in.prom.GetMetrics may return: the keys of its two maps
MetricsResults == [Metrics : SUBSET RefNames, Histograms : SUBSET RefNames]

\* value of metrics.Metrics[name]
MetricOf(name) == [rate |-> name]

\* value of metrics.Histograms[name]
HistogramOf(name) == [histogram |-> name]

\* models.PrepareIstioDashboard
PrepareIstioDashboard(direction, local, remote) ==
    [Title |-> direction, Aggregations |-> <<local, remote>>, Charts |-> <<>>]

IstioIdle ==
    /\ istioCharts = IstioChartsTable
    /\ giPc = "idle"
    /\ giIdx = 0
    /\ giDashboard = Nil
    /\ giBase = 0
    /\ giMetrics = Nil
    /\ giResult = Nil
    /\ giErr = Nil

\* GetIstioDashboard, lines 126-134: prepare the dashboard, get the metrics.
GetIstioDashboardCall ==
    /\ UNCHANGED <<ckVars, gdVars>>
    /\ giPc = "idle"
    /\ \E direction \in Directions :
          \/ /\ direction = "inbound"
             /\ giDashboard' = PrepareIstioDashboard("Inbound", "destination", "source")
          \/ /\ direction # "inbound"
             /\ giDashboard' = PrepareIstioDashboard("Outbound", "source", "destination")
    /\ giBase' = Len(giDashboard'.Charts)
    /\ \E m \in MetricsResults : giMetrics' = m
    /\ giIdx' = 1
    /\ giPc' = "loop"
    /\ giResult' = Nil
    /\ giErr' = Nil
    /\ UNCHANGED istioCharts

\* the chart one iteration appends: a copy of the table's chart, filled in
NewChart(chartTpl, metrics) ==
    [chartTpl.Chart EXCEPT
        !.CounterRate = IF chartTpl.refName \in metrics.Metrics
                        THEN MetricOf(chartTpl.refName) ELSE @,
        !.Histogram = IF chartTpl.refName \in metrics.Histograms
                      THEN HistogramOf(chartTpl.refName) ELSE @]

\* Faulty variant: the chart is filled in place, in the shared table.
GetIstioDashboardLoopInPlace ==
    /\ UNCHANGED <<ckVars, gdVars>>
    /\ giPc = "loop"
    /\ giIdx <= Len(istioCharts)
    /\ istioCharts' = [istioCharts EXCEPT ![giIdx].Chart =
                          NewChart(istioCharts[giIdx], giMetrics)]
    /\ giDashboard' = [giDashboard EXCEPT !.Charts =
                          Append(@, NewChart(istioCharts[giIdx], giMetrics))]
    /\ giIdx' = giIdx + 1
    /\ UNCHANGED <<giPc, giBase, giMetrics, giResult, giErr>>

\* GetIstioDashboard, lines 136-145: one iteration of the range loop.
GetIstioDashboardLoop ==
    /\ UNCHANGED <<ckVars, gdVars>>
    /\ giPc = "loop"
    /\ giIdx <= Len(istioCharts)
    /\ giDashboard' = [giDashboard EXCEPT !.Charts =
                          Append(@, NewChart(istioCharts[giIdx], giMetrics))]
    /\ giIdx' = giIdx + 1
    /\ UNCHANGED <<istioCharts, giPc, giBase, giMetrics, giResult, giErr>>

\* GetIstioDashboard, line 147: return &dashboard, nil.
GetIstioDashboardReturn ==
    /\ UNCHANGED <<ckVars, gdVars>>
    /\ giPc = "loop"
    /\ giIdx > Len(istioCharts)
    /\ giResult' = giDashboard
    /\ giErr' = Nil
    /\ giPc' = "returned"
    /\ UNCHANGED <<istioCharts, giIdx, giDashboard, giBase, giMetrics>>

\* The caller has the result; the service takes the next request.
GetIstioDashboardDone ==
    /\ UNCHANGED <<ckVars, gdVars>>
    /\ giPc = "returned"
    /\ giPc' = "idle"
    /\ giIdx' = 0
    /\ giDashboard' = Nil
    /\ giBase' = 0
    /\ giMetrics' = Nil
    /\ giResult' = Nil
    /\ giErr' = Nil
    /\ UNCHANGED istioCharts

\* ------------------------------------------------------------------------
\* Specifications
\* ------------------------------------------------------------------------

\* MeshMtlsChecker.Check
Init == CheckerInit /\ DashboardIdle /\ IstioIdle

Next ==
    \/ NewMeshMtlsChecker
    \/ CheckEnter
    \/ CheckLoop
    \/ CheckMissing
    \/ CheckReturn

Spec == Init /\ [][Next]_vars

CheckerIdle ==
    /\ MeshPolicy = "PERMISSIVE"
    /\ DestinationRules = <<>>
    /\ ckPc = "idle"
    /\ ckIdx = 0
    /\ validations = <<>>
    /\ valid = TRUE
    /\ examined = 0
    /\ ref = NoRef

\* DashboardsService.GetDashboard
DashInit == CheckerIdle /\ DashboardIdle /\ IstioIdle

TaskNext ==
    \E t \in Tasks : TaskConvert(t) \/ TaskFetch(t) \/ TaskStore(t) \/ TaskDone(t)

DashNext ==
    \/ GetDashboardCall
    \/ GetDashboardFallback
    \/ GetDashboardPrepare
    \/ GetDashboardSpawn
    \/ GetDashboardWait
    \/ TaskNext
    \/ GetDashboardDone

DashSpec == DashInit /\ [][DashNext]_vars

\* Started goroutines are scheduled, every fetch returns, and the calling
\* goroutine runs whenever it is not blocked in wg.Wait().
DashProgress ==
    \/ GetDashboardFallback
    \/ GetDashboardPrepare
    \/ GetDashboardSpawn
    \/ GetDashboardWait
    \/ TaskNext

DashFairSpec == DashSpec /\ WF_vars(DashProgress)

\* DashboardsService.GetIstioDashboard
IstioInit == CheckerIdle /\ DashboardIdle /\ IstioIdle

IstioNext ==
    \/ GetIstioDashboardCall
    \/ GetIstioDashboardLoop
    \/ GetIstioDashboardReturn
    \/ GetIstioDashboardDone

IstioSpec == IstioInit /\ [][IstioNext]_vars

\* ------------------------------------------------------------------------
\* Properties of MeshMtlsChecker.Check (checked under Spec)
\* ------------------------------------------------------------------------
Strict == PeerAuthnHasStrictMTLS(MeshPolicy)

Enabling(i) == DestinationRuleHasMeshWideMTLSEnabled(DestinationRules[i])

AnyEnabling == \E i \in 1..Len(DestinationRules) : Enabling(i)

MissingCode == "peerauthentication.mtls.destinationrulemissing"

HasError == \E i \in 1..Len(validations) : validations[i].severity = "error"

HasMissingFinding ==
    \E i \in 1..Len(validations) :
        validations[i].code = MissingCode /\ validations[i].path = "spec/mtls"

\* two rules on one host, one enabling mesh-wide mTLS and the other not
Contradictory ==
    \E i, j \in 1..Len(DestinationRules) :
        /\ DestinationRules[i].host = DestinationRules[j].host
        /\ Enabling(i)
        /\ ~Enabling(j)

\* C1: when the mesh policy is Strict and no destination rule enables
\* mesh-wide mTLS (the empty list included), Check returns exactly one
\* finding, with code peerauthentication.mtls.destinationrulemissing and
\* path spec/mtls, and valid = false.
C1_StrictWithoutRuleIsOneFinding ==
    (ckPc = "done" /\ Strict /\ ~AnyEnabling) =>
        /\ Len(validations) = 1
        /\ validations[1] = Build(MissingCode, "spec/mtls")
        /\ validations[1].code = MissingCode
        /\ validations[1].path = "spec/mtls"
        /\ valid = FALSE

C1_Witness ==
    /\ ckPc = "done" /\ Strict /\ ~AnyEnabling
    /\ Len(DestinationRules) >= 2
    /\ examined = Len(DestinationRules)
    /\ Len(validations) = 1

\* C2: when the mesh policy is Strict and at least one destination rule
\* enables mesh-wide mTLS, Check returns no finding and valid = true,
\* wherever that rule stands in the list and whatever the other rules are.
C2_StrictWithRuleIsValid ==
    (ckPc = "done" /\ Strict /\ AnyEnabling) =>
        (validations = <<>> /\ valid = TRUE)

C2_Witness ==
    /\ ckPc = "done" /\ Strict
    /\ Len(DestinationRules) >= 2
    /\ ~Enabling(1)
    /\ Enabling(Len(DestinationRules))
    /\ valid = TRUE

\* C3: when the mesh policy is not Strict, Check returns no finding and
\* valid = true at once, having examined no destination rule, whatever the
\* destination rules are.
C3_NotStrictShortCircuits ==
    (ckPc = "done" /\ ~Strict) =>
        (validations = <<>> /\ valid = TRUE /\ examined = 0)

C3_Witness ==
    /\ ckPc = "done" /\ ~Strict
    /\ Len(DestinationRules) >= 2
    /\ ~AnyEnabling
    /\ valid = TRUE

\* C4: in every result of Check, valid is false exactly when an
\* Error-severity finding was produced: false exactly when the findings
\* hold the destinationrulemissing finding, true exactly when they are empty.
C4_ValidIffNoError ==
    (ckPc = "done") =>
        /\ (valid = FALSE) <=> HasError
        /\ (valid = FALSE) <=> HasMissingFinding
        /\ (valid = TRUE) <=> (validations = <<>>)

C4_Witness ==
    /\ ckPc = "done"
    /\ valid = FALSE
    /\ HasError
    /\ DestinationRules = <<>>

\* C5 as stated: Strict mode with contradictory rules on one host yields a
\* Warning finding even though a qualifying rule exists.
C5_AmbiguousRuleWarning ==
    (ckPc = "done" /\ Strict /\ Contradictory) =>
        \E i \in 1..Len(validations) : validations[i].severity = "warning"

\* C5 amended: Strict mode with contradictory rules on one host (one
\* enabling mesh-wide mTLS, another not) yields no finding at all, of any
\* severity, and valid = true.
C5_ContradictoryRulesNoFinding ==
    (ckPc = "done" /\ Strict /\ Contradictory) =>
        (Len(validations) = 0 /\ valid = TRUE)

C5_Witness ==
    /\ ckPc = "done" /\ Strict /\ Contradictory
    /\ DestinationRules[1].host = MeshWideHost
    /\ ~Enabling(1)
    /\ examined = 2

\* C6: an invocation of Check on the context of an earlier invocation
\* (same mesh policy, same destination rules) returns the findings and the
\* validity flag the earlier one returned, whatever was invoked in between.
C6_SameContextSameResult ==
    (ckPc = "done" /\ ref.set /\ ref.policy = MeshPolicy
        /\ ref.rules = DestinationRules) =>
        ref.result = Result

C6_Witness ==
    /\ ckPc = "done" /\ ref.set
    /\ ref.policy = MeshPolicy /\ ref.rules = DestinationRules
    /\ Strict /\ Len(DestinationRules) >= 1
    /\ ref.result.valid = FALSE

\* ------------------------------------------------------------------------
\* Properties of DashboardsService.GetDashboard
\* ------------------------------------------------------------------------
Succeeded == gdPc = "returned" /\ gdErr = Nil

NCharts == Len(dashboard.Charts)

AllTasksDone ==
    /\ \A t \in Tasks : t <= NCharts => taskPc[t] = "done"
    /\ \A t \in Tasks : t > NCharts => taskPc[t] = "none"

Filled(chart) == chart.CounterRate # Nil \/ chart.Histogram # Nil

\* C7: one task is dispatched per chart of the template, and the result is
\* assembled and returned only after every one of them has completed (no
\* partial result, the WaitGroup back at zero); when the goroutines run and
\* every fetch returns, a call that was made eventually returns.
C7_BarrierJoin ==
    /\ [](Succeeded =>
            /\ AllTasksDone
            /\ wg = 0
            /\ Len(gdResult.Charts) = NCharts
            /\ \A i \in 1..NCharts : Filled(gdResult.Charts[i]))
    /\ ((gdPc # "idle") ~> (gdPc = "returned"))

C7_Witness ==
    /\ Succeeded
    /\ NCharts >= 2
    /\ AllTasksDone
    /\ \A i \in 1..NCharts : Filled(gdResult.Charts[i])

\* C8: the task of template chart i writes slot i only, so the returned
\* dashboard has as many charts as the template, chart i is the conversion
\* of template chart i, and exactly one fetch was issued for it: a rate
\* fetch stored in CounterRate when its metric type is "counter", otherwise
\* a histogram fetch stored in Histogram.
C8_ChartsInTemplateOrder ==
    /\ \A slot \in Tasks : writers[slot] \subseteq {slot}
    /\ \A t \in Tasks : Len(fetchLog[t]) <= 1
    /\ Succeeded =>
          /\ Len(gdResult.Charts) = NCharts
          /\ \A i \in 1..NCharts :
                IF dashboard.Charts[i].MetricType = "counter"
                THEN /\ fetchLog[i] = <<"rate">>
                     /\ gdResult.Charts[i] =
                           [ConvertChart(dashboard.Charts[i]) EXCEPT
                              !.CounterRate =
                                 FetchRateRange(dashboard.Charts[i].MetricName)]
                ELSE /\ fetchLog[i] = <<"histogram">>
                     /\ gdResult.Charts[i] =
                           [ConvertChart(dashboard.Charts[i]) EXCEPT
                              !.Histogram =
                                 FetchHistogramRange(dashboard.Charts[i].MetricName)]

C8_Witness ==
    /\ Succeeded
    /\ NCharts = 2
    /\ dashboard.Charts[1].MetricType = ""
    /\ dashboard.Charts[2].MetricType = "counter"
    /\ gdResult.Charts[1].Histogram # Nil
    /\ gdResult.Charts[2].CounterRate # Nil

NoTaskStarted ==
    /\ \A t \in Tasks : taskPc[t] = "none" /\ fetchLog[t] = <<>>
    /\ wg = 0
    /\ filledCharts = <<>>

\* C9: the template is looked up first in the query's namespace; only if
\* that fails, in the Istio namespace; if that fails too the call returns a
\* nil dashboard with that error and no task or fetch was ever started; a
\* first lookup that succeeds is the only one.
C9_LookupFallback ==
    /\ Len(gdLookups) <= 2
    /\ (gdPc # "idle") => (Len(gdLookups) >= 1 /\ gdLookups[1].ns = gdNamespace)
    /\ (Len(gdLookups) = 2) =>
          (~gdLookups[1].ok /\ gdLookups[2].ns = IstioNamespace)
    /\ (Len(gdLookups) = 2 /\ ~gdLookups[2].ok) =>
          /\ gdPc = "returned"
          /\ gdResult = Nil
          /\ gdErr = ErrNotFound(IstioNamespace)
          /\ NoTaskStarted
    /\ (gdPc = "returned" /\ gdErr # Nil) =>
          (Len(gdLookups) = 2 /\ ~gdLookups[2].ok)

C9_Witness ==
    /\ gdPc = "returned"
    /\ gdNamespace = "bookinfo"
    /\ gdLookups = <<[ns |-> "bookinfo", ok |-> FALSE],
                     [ns |-> IstioNamespace, ok |-> FALSE]>>
    /\ gdResult = Nil
    /\ gdErr # Nil

\* ------------------------------------------------------------------------
\* Properties of DashboardsService.GetIstioDashboard
\* ------------------------------------------------------------------------
IstioChartNames ==
    <<"Request volume", "Request duration", "Request size", "Response size",
      "TCP received", "TCP sent">>

IstioChartUnits == <<"ops", "s", "B", "B", "bps", "bps">>

IstioRefNames ==
    <<"request_count", "request_duration", "request_size", "response_size",
      "tcp_received", "tcp_sent">>

\* C10: every call returns a nil error and a dashboard to which the call
\* appended the six hard-coded charts in table order, a chart without
\* metrics kept with no data; and the shared istioCharts table is unchanged.
C10_SixChartsTableUnchanged ==
    /\ istioCharts = IstioChartsTable
    /\ (giPc = "returned") =>
          /\ giErr = Nil
          /\ giResult # Nil
          /\ Len(giResult.Charts) = giBase + 6
          /\ \A i \in 1..6 :
                /\ giResult.Charts[giBase + i].Name = IstioChartNames[i]
                /\ giResult.Charts[giBase + i].Unit = IstioChartUnits[i]
                /\ giResult.Charts[giBase + i].Spans = 12
                /\ giResult.Charts[giBase + i].CounterRate =
                      IF IstioRefNames[i] \in giMetrics.Metrics
                      THEN MetricOf(IstioRefNames[i]) ELSE Nil
                /\ giResult.Charts[giBase + i].Histogram =
                      IF IstioRefNames[i] \in giMetrics.Histograms
                      THEN HistogramOf(IstioRefNames[i]) ELSE Nil

C10_Witness ==
    /\ giPc = "returned"
    /\ giMetrics.Metrics = {"request_count", "tcp_sent"}
    /\ giMetrics.Histograms = {"request_duration"}
    /\ giResult.Title = "Outbound"
    /\ giResult.Charts[3].CounterRate = Nil
    /\ giResult.Charts[3].Histogram = Nil
    /\ giResult.Charts[1].CounterRate # Nil

====
